---- MODULE Spec2Model ----
(***************************************************************************)
(* core/domain/fs_services.py: saving, reading, deleting and copying the   *)
(* image and classifier-data files of an entity through the file system    *)
(* classes of fs_domain.                                                   *)
(*                                                                         *)
(* Strings are sequences of tokens: a token is one character ("a", ".",    *)
(* "/") or one literal of a format string ("_compressed", "_micro",        *)
(* "-classifier-data"), so that slicing at the last "." and the formatting *)
(* of the derived file names are computed, not assumed.  File contents are *)
(* sequences of tokens as well.                                            *)
(***************************************************************************)
EXTENDS Integers, Sequences, FiniteSets, TLC

VARIABLES
    store,   \* the bucket: [<<assets_path, filepath>> -> [content, mimetype]]
    pre,     \* the bucket as it was when the last call started
    last,    \* the last call of a function of the module: arguments, outcome
    prev,    \* the call before the last one
    saved,   \* per (exp_id, job_id): the data of the latest save, and whether
             \* a delete of it was called since
    ncalls,  \* the number of calls made
    call,    \* concurrent callers: the arguments of the save each one runs
    pc,      \* concurrent callers: the position of each in the save function
    wlog     \* concurrent callers: the commits made, <<caller, variant>>, in order

vars == <<store, pre, last, prev, saved, ncalls, call, pc, wlog>>

-----------------------------------------------------------------------------
(* Bounds and input sets *)

\* calls of the module in one run
MaxCalls == 2

\* calls in one run of the classifier-data functions alone
MaxClassifierCalls == 3

\* image_services.compress_image quality factors, in hundredths
COMPRESSED_QUALITY == 80
MICRO_QUALITY == 70

ENTITY_TYPE_EXPLORATION == <<"exploration">>

Entity1 == <<ENTITY_TYPE_EXPLORATION, <<"e1">>>>
Entity2 == <<<<"skill">>, <<"e1">>>>
Entities == {Entity1, Entity2}
ExpIds == {<<"e1">>, <<"e2">>}
JobIds == {<<"j1">>, <<"j2">>}

\* "a.b.png" (two dots), the name its compressed version gets, and a name
\* with no dot
File1 == <<"a", ".", "b", ".", "png">>
File2 == <<"a", ".", "b", "_compressed", ".", "png">>
File3 == <<"c">>
Filenames == {File1, File2, File3}
FilenameLists == { <<>>, <<File1>>, <<File3>>, <<File1, File2>>, <<File2, File1>> }
Prefixes == {<<"image">>}
ImageContents == {<<"img1">>, <<"img2">>}

\* classifier data: a one-entry dict <<type of the key, key, value>>
ClassifierData == { <<"str", "1", "x">>, <<"int", "1", "y">> }

TargetTypes == {"skill", "exploration", "topic"}

None == <<"None">>

-----------------------------------------------------------------------------
(* Python string operations *)

\* mutant of rfind: str.find, the index of the first ch
RECURSIVE find_first(_, _)
find_first(s, ch) ==
    IF Len(s) = 0 THEN -1
    ELSE IF s[1] = ch THEN 0
    ELSE LET r == find_first(Tail(s), ch) IN IF r < 0 THEN -1 ELSE r + 1

\* str.rfind(ch): the 0-based index of the last ch in s, or -1
RECURSIVE rfind(_, _)
rfind(s, ch) ==
    IF Len(s) = 0 THEN -1
    ELSE IF s[Len(s)] = ch THEN Len(s) - 1
    ELSE rfind(SubSeq(s, 1, Len(s) - 1), ch)

\* s[:i] for an index i >= -1 (a negative index counts from the end)
SliceTo(s, i) == IF i < 0 THEN SubSeq(s, 1, Len(s) + i) ELSE SubSeq(s, 1, i)

\* s[j:] for an index j >= 0
SliceFrom(s, j) == SubSeq(s, j + 1, Len(s))

filename_wo_filetype(filename) == SliceTo(filename, rfind(filename, "."))

filetype(filename) == SliceFrom(filename, rfind(filename, ".") + 1)

compressed_image_filename(filename) ==
    filename_wo_filetype(filename) \o <<"_compressed", ".">> \o filetype(filename)

micro_image_filename(filename) ==
    filename_wo_filetype(filename) \o <<"_micro", ".">> \o filetype(filename)

\* '%s/%s' % (filename_prefix, name)
PathUnder(filename_prefix, name) == filename_prefix \o <<"/">> \o name

\* the three (file path) targets of a save, in the order the code visits them
\* (the tokens are ASCII: path.encode('utf-8') is the same sequence of bytes)
TargetPaths(filename, filename_prefix) ==
    << PathUnder(filename_prefix, filename),
       PathUnder(filename_prefix, compressed_image_filename(filename)),
       PathUnder(filename_prefix, micro_image_filename(filename)) >>

ImageMimetype(filename) ==
    IF filetype(filename) = <<"svg">> THEN <<"image/svg+xml">>
    ELSE <<"image/">> \o filetype(filename)

ClassifierFilepath(job_id) == job_id \o <<"-classifier-data", ".", "json">>

-----------------------------------------------------------------------------
(* Collaborators: fs_domain, image_services, json, feconf *)

\* GcsFileSystem(entity_name, entity_id).assets_path
assets_path(entity_type, entity_id) ==
    entity_type \o <<"/">> \o entity_id \o <<"/", "assets">>

EmptyStore == [k \in {} |-> <<>>]

isfile(st, ap, filepath) == <<ap, filepath>> \in DOMAIN st

commit(st, ap, filepath, content, mimetype) ==
    [k \in DOMAIN st \cup {<<ap, filepath>>} |->
        IF k = <<ap, filepath>>
        THEN [content |-> content, mimetype |-> mimetype]
        ELSE st[k]]

get(st, ap, filepath) == st[<<ap, filepath>>].content

delete(st, ap, filepath) ==
    [k \in DOMAIN st \ {<<ap, filepath>>} |-> st[k]]

\* copy(source_assets_path, filepath) on the file system with assets path ap:
\* the file at filepath under the source becomes the file at filepath under
\* ap; a source that has no such file is a not-found failure of the backend.
copy(st, ap, source_assets_path, filepath) ==
    IF <<source_assets_path, filepath>> \in DOMAIN st
    THEN [ok |-> TRUE,
          store |-> [k \in DOMAIN st \cup {<<ap, filepath>>} |->
                        IF k = <<ap, filepath>>
                        THEN st[<<source_assets_path, filepath>>]
                        ELSE st[k]]]
    ELSE [ok |-> FALSE, store |-> st]

\* image_services.compress_image(content, quality): other bytes, which
\* depend on the content and on the quality factor
compress_image(content, quality) ==
    content \o <<IF quality = COMPRESSED_QUALITY THEN "q0.8" ELSE "q0.7">>

\* json.dumps of a one-entry dict: the key is written as a JSON string
\* whatever its Python type
json_dumps(d) == <<"{", d[2], ":", d[3], "}">>

\* json.loads of such a text: every key comes back as a string
json_loads(text) == <<"str", text[2], text[4]>>

TARGET_TYPE_SKILL == "skill"
TARGET_TYPE_EXPLORATION == "exploration"
IMAGE_CONTEXT_QUESTION_SUGGESTIONS == "question_suggestions"
IMAGE_CONTEXT_EXPLORATION_SUGGESTIONS == "exploration_suggestions"

-----------------------------------------------------------------------------
(* The functions of fs_services *)

\* mutant of VersionContents: the image is compressed whatever the flag says
VersionContentsCompressed(original_image_content, image_is_compressible) ==
    << original_image_content,
       compress_image(original_image_content, COMPRESSED_QUALITY),
       compress_image(original_image_content, MICRO_QUALITY) >>

\* the contents of the original, compressed and micro versions
VersionContents(original_image_content, image_is_compressible) ==
    IF image_is_compressible
    THEN << original_image_content,
            compress_image(original_image_content, COMPRESSED_QUALITY),
            compress_image(original_image_content, MICRO_QUALITY) >>
    ELSE << original_image_content,
            original_image_content,
            original_image_content >>

\* mutant of CommitIfAbsent: the commit without the isfile test
CommitAlways(st, ap, filepath, content, mimetype) ==
    commit(st, ap, filepath, content, mimetype)

\* if not fs.isfile(path): fs.commit(path, content, mimetype=mimetype)
CommitIfAbsent(st, ap, filepath, content, mimetype) ==
    IF ~isfile(st, ap, filepath)
    THEN commit(st, ap, filepath, content, mimetype)
    ELSE st

\* mutant of save_original_and_compressed_versions_of_image: the original
\* is committed without the isfile test, the other two versions are gated
save_image_original_unguarded(st, filename, entity_type, entity_id, original_image_content, filename_prefix, image_is_compressible) ==
    LET paths == TargetPaths(filename, filename_prefix)
        ap == assets_path(entity_type, entity_id)
        contents == VersionContents(original_image_content, image_is_compressible)
        mimetype == ImageMimetype(filename)
        s1 == commit(st, ap, paths[1], contents[1], mimetype)
        s2 == CommitIfAbsent(s1, ap, paths[2], contents[2], mimetype)
        s3 == CommitIfAbsent(s2, ap, paths[3], contents[3], mimetype)
    IN  s3

save_original_and_compressed_versions_of_image(st, filename, entity_type, entity_id, original_image_content, filename_prefix, image_is_compressible) ==
    LET paths == TargetPaths(filename, filename_prefix)
        ap == assets_path(entity_type, entity_id)
        contents == VersionContents(original_image_content, image_is_compressible)
        mimetype == ImageMimetype(filename)
        s1 == CommitIfAbsent(st, ap, paths[1], contents[1], mimetype)
        s2 == CommitIfAbsent(s1, ap, paths[2], contents[2], mimetype)
        s3 == CommitIfAbsent(s2, ap, paths[3], contents[3], mimetype)
    IN  s3

\* mutant of save_classifier_data: the commit is gated as the image commits are
save_classifier_data_if_absent(st, exp_id, job_id, classifier_data) ==
    CommitIfAbsent(st, assets_path(ENTITY_TYPE_EXPLORATION, exp_id),
                   ClassifierFilepath(job_id), json_dumps(classifier_data),
                   <<"application/json">>)

save_classifier_data(st, exp_id, job_id, classifier_data) ==
    commit(st, assets_path(ENTITY_TYPE_EXPLORATION, exp_id),
           ClassifierFilepath(job_id), json_dumps(classifier_data),
           <<"application/json">>)

\* mutant of read_classifier_data: the file path is built from exp_id
read_classifier_data_wrong_path(st, exp_id, job_id) ==
    LET ap == assets_path(ENTITY_TYPE_EXPLORATION, exp_id)
        filepath == ClassifierFilepath(exp_id)
    IN  IF ~isfile(st, ap, filepath)
        THEN None
        ELSE json_loads(get(st, ap, filepath))

read_classifier_data(st, exp_id, job_id) ==
    LET ap == assets_path(ENTITY_TYPE_EXPLORATION, exp_id)
        filepath == ClassifierFilepath(job_id)
    IN  IF ~isfile(st, ap, filepath)
        THEN None
        ELSE json_loads(get(st, ap, filepath))

\* mutant of delete_classifier_data: the file path is built from exp_id
delete_classifier_data_wrong_path(st, exp_id, job_id) ==
    delete(st, assets_path(ENTITY_TYPE_EXPLORATION, exp_id),
           ClassifierFilepath(exp_id))

delete_classifier_data(st, exp_id, job_id) ==
    delete(st, assets_path(ENTITY_TYPE_EXPLORATION, exp_id),
           ClassifierFilepath(job_id))

\* mutant of get_image_context_for_suggestion_target: the second test is
\* dropped, every type but the skill gets the exploration context
get_image_context_no_raise(suggestion_target_type) ==
    IF suggestion_target_type = TARGET_TYPE_SKILL
    THEN [raised |-> FALSE, value |-> IMAGE_CONTEXT_QUESTION_SUGGESTIONS]
    ELSE [raised |-> FALSE, value |-> IMAGE_CONTEXT_EXPLORATION_SUGGESTIONS]

\* [raised |-> TRUE] stands for raise Exception('Invalid suggestion target type.')
get_image_context_for_suggestion_target(suggestion_target_type) ==
    IF suggestion_target_type = TARGET_TYPE_SKILL
    THEN [raised |-> FALSE, value |-> IMAGE_CONTEXT_QUESTION_SUGGESTIONS]
    ELSE IF suggestion_target_type = TARGET_TYPE_EXPLORATION
    THEN [raised |-> FALSE, value |-> IMAGE_CONTEXT_EXPLORATION_SUGGESTIONS]
    ELSE [raised |-> TRUE, value |-> ""]

\* mutant of CopyCallsOf: the source argument is the path of the file under
\* the source's assets path
CopyCallsOfFileSource(filename, source_assets_path) ==
    << <<source_assets_path \o <<"/", "image", "/">> \o filename,
         <<"image", "/">> \o filename>>,
       <<source_assets_path \o <<"/", "image", "/">>
            \o compressed_image_filename(filename),
         <<"image", "/">> \o compressed_image_filename(filename)>>,
       <<source_assets_path \o <<"/", "image", "/">>
            \o micro_image_filename(filename),
         <<"image", "/">> \o micro_image_filename(filename)>> >>

\* the copy calls of one pass of the loop: <<source argument, destination path>>
CopyCallsOf(filename, source_assets_path) ==
    << <<source_assets_path, <<"image", "/">> \o filename>>,
       <<source_assets_path, <<"image", "/">> \o compressed_image_filename(filename)>>,
       <<source_assets_path, <<"image", "/">> \o micro_image_filename(filename)>> >>

\* the copy calls of the whole loop, when none of them fails
RECURSIVE CopyCalls(_, _)
CopyCalls(filenames, source_assets_path) ==
    IF filenames = <<>> THEN <<>>
    ELSE CopyCallsOf(Head(filenames), source_assets_path)
            \o CopyCalls(Tail(filenames), source_assets_path)

\* destination_fs.copy for each call in turn; a call that fails raises, and
\* the calls after it are not made
RECURSIVE IssueCopies(_, _, _, _)
IssueCopies(st, destination_ap, todo, issued) ==
    IF todo = <<>> THEN [store |-> st, calls |-> issued, raised |-> FALSE]
    ELSE LET c == Head(todo)
             r == copy(st, destination_ap, c[1], c[2])
         IN  IF r.ok
             THEN IssueCopies(r.store, destination_ap, Tail(todo), Append(issued, c))
             ELSE [store |-> st, calls |-> Append(issued, c), raised |-> TRUE]

copy_images(st, source_entity_type, source_entity_id, destination_entity_type, destination_entity_id, filenames) ==
    IssueCopies(st,
                assets_path(destination_entity_type, destination_entity_id),
                CopyCalls(filenames,
                          assets_path(source_entity_type, source_entity_id)),
                <<>>)

-----------------------------------------------------------------------------
(* Calls of the module, one at a time *)

NoCall ==
    [op |-> "none", entity |-> <<>>, filename |-> <<>>, prefix |-> <<>>,
     content |-> <<>>, compressible |-> FALSE, exp_id |-> <<>>,
     job_id |-> <<>>, data |-> <<>>, result |-> <<>>, raised |-> FALSE,
     target |-> "", context |-> "", source |-> <<>>, filenames |-> <<>>,
     calls |-> <<>>]

NoCallers == [c \in {} |-> <<>>]

NothingSaved == [k \in {} |-> <<>>]

\* files uploaded before the compressed and micro versions were introduced:
\* the original is there, the other two are not
LegacyStores ==
    { commit(EmptyStore, assets_path(Entity1[1], Entity1[2]), PathUnder(p, f),
             <<"old">>, ImageMimetype(f)) : p \in Prefixes, f \in {File1, File2} }

\* the bucket after File1 and then File2 were saved for Entity1
SeededStore ==
    save_original_and_compressed_versions_of_image(
        save_original_and_compressed_versions_of_image(
            EmptyStore, File1, Entity1[1], Entity1[2], <<"img1">>,
            <<"image">>, FALSE),
        File2, Entity1[1], Entity1[2], <<"img2">>, <<"image">>, FALSE)

InitStores == {EmptyStore, SeededStore} \cup LegacyStores

Init ==
    /\ store \in InitStores
    /\ pre = store
    /\ last = NoCall
    /\ prev = NoCall
    /\ saved = NothingSaved
    /\ ncalls = 0
    /\ call = NoCallers
    /\ pc = NoCallers
    /\ wlog = <<>>

\* what every call does to the record of the calls
Called(record) ==
    /\ pre' = store
    /\ last' = record
    /\ prev' = last
    /\ ncalls' = ncalls + 1
    /\ UNCHANGED <<call, pc, wlog>>

SaveImage(filename, e, content, prefix, compressible) ==
    /\ store' = save_original_and_compressed_versions_of_image(
                    store, filename, e[1], e[2], content, prefix, compressible)
    /\ Called([NoCall EXCEPT !.op = "save_image", !.entity = e,
                             !.filename = filename, !.prefix = prefix,
                             !.content = content,
                             !.compressible = compressible])
    /\ UNCHANGED saved

SaveClassifierData(exp_id, job_id, data) ==
    /\ store' = save_classifier_data(store, exp_id, job_id, data)
    /\ Called([NoCall EXCEPT !.op = "save_classifier_data", !.exp_id = exp_id,
                             !.job_id = job_id, !.data = data])
    /\ saved' = [k \in DOMAIN saved \cup {<<exp_id, job_id>>} |->
                    IF k = <<exp_id, job_id>>
                    THEN [data |-> data, deleted |-> FALSE]
                    ELSE saved[k]]

ReadClassifierData(exp_id, job_id) ==
    /\ store' = store
    /\ Called([NoCall EXCEPT !.op = "read_classifier_data", !.exp_id = exp_id,
                             !.job_id = job_id,
                             !.result = read_classifier_data(store, exp_id, job_id)])
    /\ UNCHANGED saved

\* what fs.delete does with a path that is not there is the backend's
\* business: it returns, or it raises; the bucket is the same either way
DeleteClassifierData(exp_id, job_id) ==
    \E raised \in BOOLEAN :
        /\ raised => ~isfile(store,
                             assets_path(ENTITY_TYPE_EXPLORATION, exp_id),
                             ClassifierFilepath(job_id))
        /\ store' = delete_classifier_data(store, exp_id, job_id)
        /\ Called([NoCall EXCEPT !.op = "delete_classifier_data",
                                 !.exp_id = exp_id, !.job_id = job_id,
                                 !.raised = raised])
        /\ saved' = [k \in DOMAIN saved |->
                        IF k = <<exp_id, job_id>>
                        THEN [saved[k] EXCEPT !.deleted = TRUE]
                        ELSE saved[k]]

GetImageContext(target) ==
    LET r == get_image_context_for_suggestion_target(target)
    IN  /\ store' = store
        /\ Called([NoCall EXCEPT !.op = "get_image_context", !.target = target,
                                 !.raised = r.raised, !.context = r.value])
        /\ UNCHANGED saved

CopyImages(src, dst, filenames) ==
    LET r == copy_images(store, src[1], src[2], dst[1], dst[2], filenames)
    IN  /\ store' = r.store
        /\ Called([NoCall EXCEPT !.op = "copy_images", !.source = src,
                                 !.entity = dst, !.filenames = filenames,
                                 !.calls = r.calls, !.raised = r.raised])
        /\ UNCHANGED saved

\* a run makes at most max calls
More(max) == ncalls < max

Next ==
    \/ \E f \in Filenames, e \in Entities, c \in ImageContents,
          p \in Prefixes, z \in BOOLEAN :
          More(MaxCalls) /\ SaveImage(f, e, c, p, z)
    \/ \E x \in ExpIds, j \in JobIds, d \in ClassifierData :
          More(MaxCalls) /\ SaveClassifierData(x, j, d)
    \/ \E x \in ExpIds, j \in JobIds :
          More(MaxCalls) /\ ReadClassifierData(x, j)
    \/ \E x \in ExpIds, j \in JobIds :
          More(MaxCalls) /\ DeleteClassifierData(x, j)
    \/ \E t \in TargetTypes :
          More(MaxCalls) /\ GetImageContext(t)
    \/ \E s \in Entities, d \in Entities, fs \in FilenameLists :
          More(MaxCalls) /\ CopyImages(s, d, fs)

Spec == Init /\ [][Next]_vars

\* the classifier-data functions alone, in longer runs
NextClassifier ==
    \/ \E x \in ExpIds, j \in JobIds, d \in ClassifierData :
          More(MaxClassifierCalls) /\ SaveClassifierData(x, j, d)
    \/ \E x \in ExpIds, j \in JobIds :
          More(MaxClassifierCalls) /\ ReadClassifierData(x, j)
    \/ \E x \in ExpIds, j \in JobIds :
          More(MaxClassifierCalls) /\ DeleteClassifierData(x, j)

SpecClassifier == Init /\ [][NextClassifier]_vars

-----------------------------------------------------------------------------
(* Two callers of save_original_and_compressed_versions_of_image at once:   *)
(* each fs.isfile and each fs.commit is a step of its own.                  *)

Callers == {1, 2}

\* where a caller goes after its n-th version is dealt with
After(n) == IF n = 3 THEN <<"return", 0>> ELSE <<"isfile", n + 1>>

CallerPath(c, n) == TargetPaths(call[c].filename, call[c].prefix)[n]

CallerAssetsPath(c) == assets_path(call[c].entity[1], call[c].entity[2])

\* mutant of CallerCommit: a commit that tests and writes in one step
CallerCommitIfAbsent(st, c, n) ==
    CommitIfAbsent(st, CallerAssetsPath(c), CallerPath(c, n),
                   VersionContents(call[c].content, call[c].compressible)[n],
                   ImageMimetype(call[c].filename))

\* fs.commit(path, content, mimetype=mimetype) of the n-th version
CallerCommit(st, c, n) ==
    commit(st, CallerAssetsPath(c), CallerPath(c, n),
           VersionContents(call[c].content, call[c].compressible)[n],
           ImageMimetype(call[c].filename))

InitConcurrent ==
    /\ store \in InitStores
    /\ pre = store
    /\ last = NoCall
    /\ prev = NoCall
    /\ saved = NothingSaved
    /\ ncalls = 0
    /\ \E f \in Filenames, e \in Entities, p \in Prefixes :
          call \in [Callers -> [filename : {f}, entity : {e}, prefix : {p},
                                content : ImageContents,
                                compressible : BOOLEAN]]
    /\ pc = [c \in Callers |-> <<"isfile", 1>>]
    /\ wlog = <<>>

\* if not fs.isfile(path):
Isfile(c, n) ==
    /\ pc[c] = <<"isfile", n>>
    /\ pc' = [pc EXCEPT ![c] =
                IF ~isfile(store, CallerAssetsPath(c), CallerPath(c, n))
                THEN <<"commit", n>>
                ELSE After(n)]
    /\ UNCHANGED <<store, pre, last, prev, saved, ncalls, call, wlog>>

\*     fs.commit(path, content, mimetype=mimetype)
Commit(c, n) ==
    /\ pc[c] = <<"commit", n>>
    /\ store' = CallerCommit(store, c, n)
    /\ wlog' = Append(wlog, <<c, n>>)
    /\ pc' = [pc EXCEPT ![c] = After(n)]
    /\ UNCHANGED <<pre, last, prev, saved, ncalls, call>>

NextConcurrent ==
    \E c \in Callers, n \in 1..3 : Isfile(c, n) \/ Commit(c, n)

SpecConcurrent == InitConcurrent /\ [][NextConcurrent]_vars

-----------------------------------------------------------------------------
(* What the properties speak of, written out from the file naming rules *)

HasDot(f) == \E i \in 1..Len(f) : f[i] = "."

LastDot(f) ==
    CHOOSE i \in 1..Len(f) :
        f[i] = "." /\ \A j \in (i + 1)..Len(f) : f[j] # "."

\* <stem>.<ext>, <stem>_compressed.<ext>, <stem>_micro.<ext>
VersionNames(f) ==
    LET stem == SubSeq(f, 1, LastDot(f) - 1)
        ext == SubSeq(f, LastDot(f) + 1, Len(f))
    IN  << stem \o <<".">> \o ext,
           stem \o <<"_compressed", ".">> \o ext,
           stem \o <<"_micro", ".">> \o ext >>

\* the three files of a save_image call, when the file name has a dot
VersionKeys(c) ==
    { <<assets_path(c.entity[1], c.entity[2]),
        c.prefix \o <<"/">> \o VersionNames(c.filename)[n]>> : n \in 1..3 }

\* the file of the classifier data of (exp_id, job_id)
ClassifierKey(exp_id, job_id) ==
    << <<"exploration", "/">> \o exp_id \o <<"/", "assets">>,
       job_id \o <<"-classifier-data", ".", "json">> >>

\* every file that was there when the last call started is there unchanged
NothingReplaced == \A k \in DOMAIN pre : k \in DOMAIN store /\ store[k] = pre[k]

SameImage(c1, c2) ==
    /\ c1.filename = c2.filename
    /\ c1.entity = c2.entity
    /\ c1.prefix = c2.prefix

SameJob(c1, c2) == c1.exp_id = c2.exp_id /\ c1.job_id = c2.job_id

\* a dict as it comes back from JSON: its key is a string
StringKeyed(d) == <<"str", d[2], d[3]>>

IsPrefix(s, u) == Len(s) <= Len(u) /\ SubSeq(u, 1, Len(s)) = s

\* the calls claimed for copy_images: three for each file name, in list order
ClaimedCopyCalls(c) ==
    [i \in 1..(3 * Len(c.filenames)) |->
        << assets_path(c.source[1], c.source[2]),
           <<"image", "/">>
              \o VersionNames(c.filenames[((i - 1) \div 3) + 1])[((i - 1) % 3) + 1] >>]

\* the callers that committed the n-th version, in the order of their commits
CommittersOf(n) == SelectSeq(wlog, LAMBDA w : w[2] = n)

LastCommitter(n) == CommittersOf(n)[Len(CommittersOf(n))][1]

-----------------------------------------------------------------------------
(* Properties *)

\* C1, as stated: neither save_original_and_compressed_versions_of_image nor
\* save_classifier_data replaces the content of a path that already exists.
C1_NoWriteReplaces ==
    last.op \in {"save_image", "save_classifier_data"} => NothingReplaced

\* C1, amended: save_original_and_compressed_versions_of_image never replaces
\* the content of a path that exists; save_classifier_data commits without
\* testing, its path then holds the new data whatever it held, and no other
\* path is touched.
C1_OnlyImageSavesAreGated ==
    /\ last.op = "save_image" => NothingReplaced
    /\ last.op = "save_classifier_data" =>
          LET k == ClassifierKey(last.exp_id, last.job_id)
          IN  /\ k \in DOMAIN store
              /\ store[k].content = json_dumps(last.data)
              /\ \A o \in DOMAIN pre \ {k} :
                    o \in DOMAIN store /\ store[o] = pre[o]

\* a save_image call that found one of its paths there, holding something
\* else than it would write, and another of its paths missing
C1_Witness ==
    /\ last.op = "save_image"
    /\ HasDot(last.filename)
    /\ \E k \in VersionKeys(last) \cap DOMAIN pre :
          pre[k].content \notin
              { VersionContents(last.content, last.compressible)[n] : n \in 1..3 }
    /\ VersionKeys(last) \ DOMAIN pre # {}

\* C2, as stated: read_classifier_data returns None when save_classifier_data
\* was never called for (exp_id, job_id), and otherwise exactly the data of
\* the save.
C2_ReadReturnsWhatWasSaved ==
    last.op = "read_classifier_data" =>
        last.result =
            IF <<last.exp_id, last.job_id>> \in DOMAIN saved
            THEN saved[<<last.exp_id, last.job_id>>].data
            ELSE None

\* C2, amended: read_classifier_data returns None when no save was made for
\* (exp_id, job_id) or a delete was called for it since the latest save;
\* otherwise it returns the data of the latest save as JSON gives it back,
\* every key a string, which is the saved data when its keys are strings.
C2_ReadRoundTrip ==
    last.op = "read_classifier_data" =>
        LET k == <<last.exp_id, last.job_id>>
        IN  IF k \in DOMAIN saved /\ ~saved[k].deleted
            THEN /\ last.result = StringKeyed(saved[k].data)
                 /\ saved[k].data[1] = "str" => last.result = saved[k].data
            ELSE last.result = None

\* a read right after a save for the same job, which returns the saved data
C2_Witness ==
    /\ last.op = "read_classifier_data"
    /\ <<last.exp_id, last.job_id>> \in DOMAIN saved
    /\ last.result = saved[<<last.exp_id, last.job_id>>].data
    /\ prev.op = "save_classifier_data"
    /\ SameJob(prev, last)
    /\ ClassifierKey(prev.exp_id, prev.job_id) \in DOMAIN pre

\* C3: a read_classifier_data called right after delete_classifier_data for
\* the same (exp_id, job_id) returns None, whether or not the data was there.
C3_ReadAfterDeleteIsNone ==
    ( /\ prev.op = "delete_classifier_data"
      /\ last.op = "read_classifier_data"
      /\ SameJob(prev, last) )
    => last.result = None

\* a read right after a delete that removed saved data
C3_Witness ==
    /\ prev.op = "delete_classifier_data"
    /\ ~prev.raised
    /\ last.op = "read_classifier_data"
    /\ SameJob(prev, last)
    /\ <<last.exp_id, last.job_id>> \in DOMAIN saved
    /\ last.result = None
    /\ ncalls = 3

\* C4, as stated: after save_classifier_data the path holds the serialization
\* of the data, whether or not the path was there, and a read that follows
\* returns the data of that save.
C4_SaveThenReadReturnsData ==
    /\ last.op = "save_classifier_data" =>
          /\ ClassifierKey(last.exp_id, last.job_id) \in DOMAIN store
          /\ store[ClassifierKey(last.exp_id, last.job_id)].content
                = json_dumps(last.data)
    /\ ( /\ prev.op = "save_classifier_data"
         /\ last.op = "read_classifier_data"
         /\ SameJob(prev, last) )
       => last.result = prev.data

\* C4, amended: after save_classifier_data the path holds the serialization
\* of the data, whether or not the path was there, and a read that follows
\* returns that data as JSON gives it back: every key a string.
C4_SaveOverwrites ==
    /\ last.op = "save_classifier_data" =>
          /\ ClassifierKey(last.exp_id, last.job_id) \in DOMAIN store
          /\ store[ClassifierKey(last.exp_id, last.job_id)].content
                = json_dumps(last.data)
    /\ ( /\ prev.op = "save_classifier_data"
         /\ last.op = "read_classifier_data"
         /\ SameJob(prev, last) )
       => last.result = StringKeyed(prev.data)

\* a second save for the same job with other data, which replaced the first
C4_Witness ==
    /\ prev.op = "save_classifier_data"
    /\ last.op = "save_classifier_data"
    /\ SameJob(prev, last)
    /\ prev.data # last.data
    /\ pre[ClassifierKey(last.exp_id, last.job_id)].content = json_dumps(prev.data)
    /\ store[ClassifierKey(last.exp_id, last.job_id)].content = json_dumps(last.data)
    /\ json_dumps(prev.data) # json_dumps(last.data)

\* C5: a second save_original_and_compressed_versions_of_image right after a
\* first one with the same file name, entity and prefix writes nothing: the
\* bucket after it is the bucket before it.
C5_SecondSaveWritesNothing ==
    ( /\ prev.op = "save_image"
      /\ last.op = "save_image"
      /\ SameImage(prev, last) )
    => store = pre

\* a second save with other content and the other compressible flag
C5_Witness ==
    /\ prev.op = "save_image"
    /\ last.op = "save_image"
    /\ SameImage(prev, last)
    /\ prev.content # last.content
    /\ prev.compressible # last.compressible
    /\ store = pre

\* C6: for a file name <stem>.<ext>, split at the last dot, the save leaves
\* <prefix>/<stem>.<ext>, <prefix>/<stem>_compressed.<ext> and
\* <prefix>/<stem>_micro.<ext> in the file system of the entity of the call,
\* three paths, and no other path of any entity is added or changed.
C6_ThreeTargetPaths ==
    (last.op = "save_image" /\ HasDot(last.filename)) =>
        /\ Cardinality(VersionKeys(last)) = 3
        /\ DOMAIN store = DOMAIN pre \cup VersionKeys(last)
        /\ \A k \in DOMAIN pre \ VersionKeys(last) : store[k] = pre[k]

\* a save of a file name with two dots, none of its paths there before, in a
\* bucket that holds files of another entity
C6_Witness ==
    /\ last.op = "save_image"
    /\ last.filename = File1
    /\ VersionKeys(last) \cap DOMAIN pre = {}
    /\ DOMAIN pre # {}
    /\ Cardinality(DOMAIN store) = Cardinality(DOMAIN pre) + 3

\* C7: with image_is_compressible=False, each of the three paths that was
\* missing holds the original content of the call, and each that was there
\* holds what it held.
C7_UncompressibleVersions ==
    (last.op = "save_image" /\ ~last.compressible /\ HasDot(last.filename)) =>
        \A k \in VersionKeys(last) :
            /\ k \in DOMAIN store
            /\ IF k \in DOMAIN pre
               THEN store[k] = pre[k]
               ELSE store[k].content = last.content

\* a call made when only the original was there: the two others are created
C7_Witness ==
    /\ last.op = "save_image"
    /\ ~last.compressible
    /\ HasDot(last.filename)
    /\ LET o == <<assets_path(last.entity[1], last.entity[2]),
                  last.prefix \o <<"/">> \o last.filename>>
       IN  /\ VersionKeys(last) \cap DOMAIN pre = {o}
           /\ pre[o].content # last.content
           /\ store[o] = pre[o]
           /\ \A k \in VersionKeys(last) \ {o} : store[k].content = last.content

\* C8: the skill target type gets one constant, the exploration target type
\* another one, and every other value raises and returns nothing.
C8_ImageContext ==
    /\ IMAGE_CONTEXT_QUESTION_SUGGESTIONS # IMAGE_CONTEXT_EXPLORATION_SUGGESTIONS
    /\ last.op = "get_image_context" =>
          IF last.target = "skill"
          THEN ~last.raised /\ last.context = IMAGE_CONTEXT_QUESTION_SUGGESTIONS
          ELSE IF last.target = "exploration"
          THEN ~last.raised /\ last.context = IMAGE_CONTEXT_EXPLORATION_SUGGESTIONS
          ELSE last.raised /\ last.context = ""

\* a call with a target type that is neither of the two
C8_Witness ==
    /\ last.op = "get_image_context"
    /\ last.target \notin {"skill", "exploration"}
    /\ last.raised

\* C9, as stated: copy_images issues three copy calls for each file name, in
\* list order, original, compressed, micro, each with the assets path of the
\* source entity as its source argument.
C9_ThreeCopiesPerFilename ==
    ( /\ last.op = "copy_images"
      /\ \A i \in 1..Len(last.filenames) : HasDot(last.filenames[i]) )
    => last.calls = ClaimedCopyCalls(last)

\* C9, amended: copy_images issues those calls in that order until one of
\* them fails: a copy of a file that the source does not hold raises, and no
\* call is issued after it; when none fails the calls are the three for each
\* file name, and an empty list issues none.
C9_CopiesUntilFailure ==
    ( /\ last.op = "copy_images"
      /\ \A i \in 1..Len(last.filenames) : HasDot(last.filenames[i]) )
    => /\ IsPrefix(last.calls, ClaimedCopyCalls(last))
       /\ ~last.raised => last.calls = ClaimedCopyCalls(last)
       /\ last.raised =>
             /\ last.calls # <<>>
             /\ <<assets_path(last.source[1], last.source[2]),
                  last.calls[Len(last.calls)][2]>> \notin DOMAIN pre
       /\ last.filenames = <<>> => last.calls = <<>>

\* a copy of two file names from one entity to another, all six calls made
C9_Witness ==
    /\ last.op = "copy_images"
    /\ last.filenames = <<File1, File2>>
    /\ last.source # last.entity
    /\ ~last.raised
    /\ Len(last.calls) = 6
    /\ \A i \in 1..6 : <<assets_path(last.entity[1], last.entity[2]),
                         last.calls[i][2]>> \in DOMAIN store

\* C10: the isfile test and the commit are two steps, and the commit does not
\* test again: a version committed by a caller holds the content of the last
\* caller that committed it, whoever committed it before.
C10_LastCommitWins ==
    \A n \in 1..3 :
        CommittersOf(n) # <<>> =>
            LET c == LastCommitter(n)
                k == <<CallerAssetsPath(c), CallerPath(c, n)>>
            IN  /\ k \in DOMAIN store
                /\ store[k].content
                      = VersionContents(call[c].content, call[c].compressible)[n]

\* both callers saw the original missing and both committed it, with
\* different contents, and the compressed version comes from the other caller
C10_Witness ==
    /\ Len(CommittersOf(1)) = 2
    /\ call[1].content # call[2].content
    /\ CommittersOf(2) # <<>>
    /\ LastCommitter(2) # LastCommitter(1)
    /\ store[<<CallerAssetsPath(1), CallerPath(1, 1)>>].content
          = call[LastCommitter(1)].content

====
